---------------------------- MODULE Spec2Model ----------------------------
(* A model of src/main.py: the region finder (get_connected_regions), the   *)
(* sheet composer (crop_and_process, pad_frame_to_size) and the batch loop  *)
(* (process_spritesheet, main).                                             *)
EXTENDS Integers, Sequences, FiniteSets, TLC

(* ------------------------------ bounds --------------------------------- *)
\* Largest image width and height that are enumerated.
MaxWidth == 3
MaxHeight == 3

\* Alpha values of a decoded RGBA pixel that are enumerated (0 = transparent).
Alphas == {0, 255}

\* Largest width and height of the sheets handed to the composer.
MaxSheetWidth == 4
MaxSheetHeight == 3

\* Configuration values that are enumerated: scale factors k/2 for k in
\* -1 .. MaxScaleHalves, paddings -1 .. MaxPadding, explicit columns and rows
\* -1 .. MaxColumns and -1 .. MaxRows, repeat counts 0 .. MaxRepeat.
MaxScaleHalves == 3
MaxPadding == 1
MaxColumns == 2
MaxRows == 2
MaxRepeat == 2

\* Largest number of .png files under the input folder, and the largest
\* width and height of their images.
MaxFiles == 2
MaxFileWidth == 3
MaxFileHeight == 1

VARIABLES
    finder,     \* the call frame of get_connected_regions (its locals)
    regions,    \* process_spritesheet: the list returned by the finder
    config,     \* the configuration dictionary handed to crop_and_process
    new_img,    \* what crop_and_process returned or raised
    main        \* main: its position in the walk over the input files

vars == <<finder, regions, config, new_img, main>>

\* Python's None as the value of output_columns / output_rows; an integer n
\* is held as <<n>>.
None == <<>>

\* A name of process_spritesheet that is not bound yet.
Unbound == [status |-> "unbound"]

\* main is not running.
NoBatch == [pc |-> "idle", nfiles |-> 0, current |-> 0, called |-> {},
            saved |-> {}]

(* ------------------------ get_connected_regions ------------------------ *)
Min(a, b) == IF a < b THEN a ELSE b
Max(a, b) == IF a > b THEN a ELSE b

\* All pixel coordinates of a w x h image.
Coords(w, h) == (0 .. w - 1) \X (0 .. h - 1)

\* is_valid(x, y)
is_valid(s, px, py) == 0 <= px /\ px < s.width /\ 0 <= py /\ py < s.height

\* is_nontransparent(x, y): the alpha channel is not 0.
is_nontransparent(s, px, py) == s.pixels[<<px, py>>] # 0

\* The (dx, dy) pairs in the order of the two nested loops over [-1, 0, 1].
Offsets ==
    << <<-1, -1>>, <<-1, 0>>, <<-1, 1>>,
       << 0, -1>>, << 0, 0>>, << 0, 1>>,
       << 1, -1>>, << 1, 0>>, << 1, 1>> >>

\* The locals of get_connected_regions right after its set-up, before the
\* first iteration of the scan.  group/groups/enq are history fields: the
\* pixels marked by the running traversal, the pixel set of every finished
\* traversal, and how often each pixel was appended to a queue.
InitFinder(img, w, h) ==
    [ pixels  |-> img, width |-> w, height |-> h,
      visited |-> {}, regions |-> <<>>, q |-> <<>>,
      x |-> 0, y |-> 0,
      xmin |-> 0, xmax |-> 0, ymin |-> 0, ymax |-> 0,
      pc |-> "scan",
      group |-> {}, groups |-> <<>>,
      enq |-> [p \in Coords(w, h) |-> 0] ]

\* The step of the two scan loops: the next x, or the next row, or the end.
NextScan(s) ==
    IF s.x + 1 < s.width THEN [s EXCEPT !.x = s.x + 1]
    ELSE IF s.y + 1 < s.height THEN [s EXCEPT !.x = 0, !.y = s.y + 1]
    ELSE [s EXCEPT !.pc = "done"]

\* ScanPixel with the start pixel left unmarked in `visited`.
ScanPixelStartUnmarked(s) ==
    IF <<s.x, s.y>> \notin s.visited /\ is_nontransparent(s, s.x, s.y)
    THEN [s EXCEPT !.q = <<<<s.x, s.y>>>>,
                   !.xmin = s.x, !.xmax = s.x, !.ymin = s.y, !.ymax = s.y,
                   !.pc = "bfs",
                   !.group = {<<s.x, s.y>>},
                   !.enq = [s.enq EXCEPT ![<<s.x, s.y>>] = @ + 1]]
    ELSE NextScan(s)

\* ScanPixel without the `not visited[x][y]` test.
ScanPixelIgnoresVisited(s) ==
    IF is_nontransparent(s, s.x, s.y)
    THEN [s EXCEPT !.q = <<<<s.x, s.y>>>>,
                   !.visited = s.visited \cup {<<s.x, s.y>>},
                   !.xmin = s.x, !.xmax = s.x, !.ymin = s.y, !.ymax = s.y,
                   !.pc = "bfs",
                   !.group = {<<s.x, s.y>>},
                   !.enq = [s.enq EXCEPT ![<<s.x, s.y>>] = @ + 1]]
    ELSE NextScan(s)

\* One iteration of the scan: an unvisited foreground pixel starts a
\* traversal, any other pixel is passed over.
ScanPixel(s) ==
    IF <<s.x, s.y>> \notin s.visited /\ is_nontransparent(s, s.x, s.y)
    THEN [s EXCEPT !.q = <<<<s.x, s.y>>>>,
                   !.visited = s.visited \cup {<<s.x, s.y>>},
                   !.xmin = s.x, !.xmax = s.x, !.ymin = s.y, !.ymax = s.y,
                   !.pc = "bfs",
                   !.group = {<<s.x, s.y>>},
                   !.enq = [s.enq EXCEPT ![<<s.x, s.y>>] = @ + 1]]
    ELSE NextScan(s)

\* VisitNeighbour that follows the four edge neighbours only.
VisitNeighbour4(s, cx, cy, d) ==
    LET nx == cx + d[1]
        ny == cy + d[2]
    IN  IF (d[1] # 0 \/ d[2] # 0) /\ (d[1] = 0 \/ d[2] = 0)
           /\ is_valid(s, nx, ny)
           /\ <<nx, ny>> \notin s.visited /\ is_nontransparent(s, nx, ny)
        THEN [s EXCEPT !.visited = s.visited \cup {<<nx, ny>>},
                       !.q = Append(s.q, <<nx, ny>>),
                       !.xmin = Min(s.xmin, nx), !.xmax = Max(s.xmax, nx),
                       !.ymin = Min(s.ymin, ny), !.ymax = Max(s.ymax, ny),
                       !.group = s.group \cup {<<nx, ny>>},
                       !.enq = [s.enq EXCEPT ![<<nx, ny>>] = @ + 1]]
        ELSE s

\* The body of the dx/dy loops for one neighbour of (cx, cy).
VisitNeighbour(s, cx, cy, d) ==
    LET nx == cx + d[1]
        ny == cy + d[2]
    IN  IF (d[1] # 0 \/ d[2] # 0) /\ is_valid(s, nx, ny)
           /\ <<nx, ny>> \notin s.visited /\ is_nontransparent(s, nx, ny)
        THEN [s EXCEPT !.visited = s.visited \cup {<<nx, ny>>},
                       !.q = Append(s.q, <<nx, ny>>),
                       !.xmin = Min(s.xmin, nx), !.xmax = Max(s.xmax, nx),
                       !.ymin = Min(s.ymin, ny), !.ymax = Max(s.ymax, ny),
                       !.group = s.group \cup {<<nx, ny>>},
                       !.enq = [s.enq EXCEPT ![<<nx, ny>>] = @ + 1]]
        ELSE s

RECURSIVE VisitNeighbours(_, _, _, _)
VisitNeighbours(s, cx, cy, k) ==
    IF k > Len(Offsets) THEN s
    ELSE VisitNeighbours(VisitNeighbour(s, cx, cy, Offsets[k]), cx, cy, k + 1)

\* One iteration of `while q`: popleft, then the eight neighbours.
PopPixel(s) ==
    LET c == Head(s.q)
    IN  VisitNeighbours([s EXCEPT !.q = Tail(s.q)], c[1], c[2], 1)

\* The queue is exhausted: append the bounding box, go on with the scan.
EmitRegion(s) ==
    NextScan([s EXCEPT
        !.regions = Append(s.regions, <<s.xmin, s.ymin, s.xmax + 1, s.ymax + 1>>),
        !.groups = Append(s.groups, s.group),
        !.group = {},
        !.pc = "scan"])

\* One step of get_connected_regions.
FinderStep(s) ==
    IF s.pc = "scan" THEN ScanPixel(s)
    ELSE IF s.pc = "bfs" /\ s.q # <<>> THEN PopPixel(s)
    ELSE IF s.pc = "bfs" THEN EmitRegion(s)
    ELSE s

RECURSIVE RunFinder(_)
RunFinder(s) == IF s.pc = "done" THEN s ELSE RunFinder(FinderStep(s))

\* get_connected_regions(img): the returned list of boxes.
get_connected_regions(img, w, h) == RunFinder(InitFinder(img, w, h)).regions

(* --------------------- specification: region finder -------------------- *)
InitRegions ==
    /\ \E w \in 1 .. MaxWidth : \E h \in 1 .. MaxHeight :
          \E img \in [Coords(w, h) -> Alphas] : finder = InitFinder(img, w, h)
    /\ regions = <<>> /\ config = Unbound /\ new_img = Unbound
    /\ main = NoBatch

Scan ==
    /\ finder.pc = "scan" /\ finder' = ScanPixel(finder)
    /\ UNCHANGED <<regions, config, new_img, main>>
Pop ==
    /\ finder.pc = "bfs" /\ finder.q # <<>> /\ finder' = PopPixel(finder)
    /\ UNCHANGED <<regions, config, new_img, main>>
Emit ==
    /\ finder.pc = "bfs" /\ finder.q = <<>> /\ finder' = EmitRegion(finder)
    /\ UNCHANGED <<regions, config, new_img, main>>

NextRegions == Scan \/ Pop \/ Emit

SpecRegions == InitRegions /\ [][NextRegions]_vars

(* ------------------- properties of the region finder ------------------- *)
\* The foreground pixels of the image being scanned (alpha # 0).
Foreground == {p \in Coords(finder.width, finder.height) : finder.pixels[p] # 0}

\* Two different pixels that differ by at most 1 in x and in y.
Adjacent8(p, r) ==
    /\ p # r
    /\ p[1] - r[1] \in {-1, 0, 1}
    /\ p[2] - r[2] \in {-1, 0, 1}

\* The pixels of F reachable from S through 8-neighbour steps inside F.
RECURSIVE Reach8(_, _)
Reach8(S, F) ==
    LET N == S \cup {p \in F : \E r \in S : Adjacent8(p, r)}
    IN  IF N = S THEN S ELSE Reach8(N, F)

\* S is one maximal 8-connected group of foreground pixels: it is not
\* empty and it is all that is reachable from any one of its pixels.
IsComponent(S) ==
    /\ S # {}
    /\ S \subseteq Foreground
    /\ \A p \in S : Reach8({p}, Foreground) = S

\* The tight bounding box of a non-empty pixel set, upper bounds exclusive.
TightBox(S) ==
    << CHOOSE a \in {p[1] : p \in S} : \A p \in S : a <= p[1],
       CHOOSE a \in {p[2] : p \in S} : \A p \in S : a <= p[2],
       (CHOOSE a \in {p[1] : p \in S} : \A p \in S : a >= p[1]) + 1,
       (CHOOSE a \in {p[2] : p \in S} : \A p \in S : a >= p[2]) + 1 >>

\* The pixel coordinates inside a box.
InBox(b) == {p \in Coords(finder.width, finder.height) :
                b[1] <= p[1] /\ p[1] < b[3] /\ b[2] <= p[2] /\ p[2] < b[4]}

\* The pixel sets of all traversals so far, the running one included.
Traversals ==
    IF finder.pc = "bfs" THEN Append(finder.groups, finder.group)
    ELSE finder.groups

\* C1: the pixel sets marked by the traversals partition the foreground:
\* no pixel is appended to a queue twice, every traversal marks foreground
\* pixels only, no pixel is in two traversals, and once the scan is over
\* every foreground pixel is in one of them.
C1_Partition ==
    /\ \A p \in DOMAIN finder.enq : finder.enq[p] <= 1
    /\ \A i \in DOMAIN Traversals : Traversals[i] \subseteq Foreground
    /\ \A i, j \in DOMAIN Traversals :
          i # j => Traversals[i] \cap Traversals[j] = {}
    /\ finder.pc = "done" =>
          UNION {finder.groups[i] : i \in DOMAIN finder.groups} = Foreground

\* A finished scan of an image with transparent pixels and three groups.
C1_Witness ==
    /\ finder.pc = "done"
    /\ Len(finder.groups) = 3
    /\ Foreground # Coords(finder.width, finder.height)
    /\ \E i \in DOMAIN finder.groups : Cardinality(finder.groups[i]) > 1

\* C2: every returned Region is the tight box, with exclusive upper bounds,
\* of one maximal 8-connected group of foreground pixels, groups of two
\* Regions are never 8-adjacent, and each maximal group yields one Region.
C2_TightBoxOfComponent ==
    finder.pc = "done" =>
        /\ Len(finder.groups) = Len(finder.regions)
        /\ \A i \in DOMAIN finder.regions :
              /\ IsComponent(finder.groups[i])
              /\ finder.regions[i] = TightBox(finder.groups[i])
              /\ finder.regions[i][1] < finder.regions[i][3]
              /\ finder.regions[i][2] < finder.regions[i][4]
        /\ \A i, j \in DOMAIN finder.regions :
              i # j => /\ finder.groups[i] # finder.groups[j]
                       /\ \A p \in finder.groups[i] :
                             \A r \in finder.groups[j] : ~Adjacent8(p, r)
        /\ \A p \in Foreground :
              \E i \in DOMAIN finder.regions : p \in finder.groups[i]

\* A finished scan in which a region holds two pixels that touch only
\* diagonally, next to a second region.
C2_Witness ==
    /\ finder.pc = "done"
    /\ Len(finder.regions) = 2
    /\ \E i \in DOMAIN finder.groups :
          /\ Cardinality(finder.groups[i]) = 2
          /\ \E p, r \in finder.groups[i] :
                p[1] # r[1] /\ p[2] # r[2]

\* C3 as stated: no pixel coordinate lies inside the boxes of two returned
\* Regions.
C3_BoxesDisjoint ==
    finder.pc = "done" =>
        \A i, j \in DOMAIN finder.regions :
            i # j => InBox(finder.regions[i]) \cap InBox(finder.regions[j]) = {}

\* C3 as amended: two returned Regions are never the same box and no pixel
\* is a member of the groups of both; their boxes may intersect.
C3_GroupsDisjointBoxesDistinct ==
    finder.pc = "done" =>
        \A i, j \in DOMAIN finder.regions :
            i # j => /\ finder.regions[i] # finder.regions[j]
                     /\ finder.groups[i] \cap finder.groups[j] = {}

\* A finished scan with two Regions whose boxes share a pixel coordinate.
C3_Witness ==
    /\ finder.pc = "done"
    /\ \E i, j \in DOMAIN finder.regions :
          /\ i # j
          /\ InBox(finder.regions[i]) \cap InBox(finder.regions[j]) # {}

(* --------------------------- crop_and_process -------------------------- *)
\* int(a / b) for b > 0: Python's int() truncates toward zero.
IntOfRatio(a, b) == IF a >= 0 THEN a \div b ELSE -((-a) \div b)

\* Python's // (floor division) and %, for a divisor that is not 0.
FloorDiv(a, b) == IF b > 0 THEN a \div b ELSE (-a) \div (-b)
PyMod(a, b) == a - b * FloorDiv(a, b)

\* int(total ** 0.5): the largest k with k * k <= total.
RECURSIVE IntSqrtFrom(_, _)
IntSqrtFrom(total, k) ==
    IF (k + 1) * (k + 1) > total THEN k ELSE IntSqrtFrom(total, k + 1)
IntSqrt(total) == IntSqrtFrom(total, 0)

\* `v or ...`: None and 0 are falsy.
Truthy(v) == v # None /\ v[1] # 0

\* frames = [img.crop(box) for box in regions]: a frame is known by its
\* size and by src, the index of the region its pixels come from.
Crop(boxes) ==
    [i \in DOMAIN boxes |->
        [width |-> boxes[i][3] - boxes[i][1],
         height |-> boxes[i][4] - boxes[i][2],
         src |-> i]]

\* int(w * scale_factor) for the scale factor num/den.
ScaledSize(n, sf) == IntOfRatio(n * sf.num, sf.den)

\* frame.resize raises ValueError for a width or height below 1.
ResizeRaises(frames, sf) ==
    \E i \in DOMAIN frames :
        \/ ScaledSize(frames[i].width, sf) < 1
        \/ ScaledSize(frames[i].height, sf) < 1

\* The scaled frames.
Resize(frames, sf) ==
    [i \in DOMAIN frames |->
        [frames[i] EXCEPT !.width = ScaledSize(frames[i].width, sf),
                          !.height = ScaledSize(frames[i].height, sf)]]

\* The sort key (pair[0][1], pair[0][0]) of a (region, frame) pair: a is
\* strictly before b.
KeyLess(a, b) ==
    \/ a.region[2] < b.region[2]
    \/ a.region[2] = b.region[2] /\ a.region[1] < b.region[1]

\* InsertPair that puts the new pair before the pairs with an equal key.
RECURSIVE InsertPairBeforeEqual(_, _)
InsertPairBeforeEqual(srt, p) ==
    IF srt = <<>> THEN <<p>>
    ELSE IF ~KeyLess(Head(srt), p) THEN <<p>> \o srt
    ELSE <<Head(srt)>> \o InsertPairBeforeEqual(Tail(srt), p)

\* sorted() is stable: a pair goes after every pair whose key is not larger.
RECURSIVE InsertPair(_, _)
InsertPair(srt, p) ==
    IF srt = <<>> THEN <<p>>
    ELSE IF KeyLess(p, Head(srt)) THEN <<p>> \o srt
    ELSE <<Head(srt)>> \o InsertPair(Tail(srt), p)

\* sorted(zip(regions, frames), key=...)
RECURSIVE SortPairs(_)
SortPairs(pairs) ==
    IF pairs = <<>> THEN <<>>
    ELSE InsertPair(SortPairs(SubSeq(pairs, 1, Len(pairs) - 1)),
                    pairs[Len(pairs)])

\* zip(regions, frames)
Zip(boxes, frames) ==
    [i \in DOMAIN boxes |-> [region |-> boxes[i], frame |-> frames[i]]]

\* max() with a default of 0 in place of the ValueError.
MaxRaisesNever(frames) == FALSE

\* max(f.width for f in frames) raises ValueError on an empty sequence.
MaxRaises(frames) == frames = <<>>

\* The largest value of field `dim` over the frames.
RECURSIVE MaxDim(_, _)
MaxDim(frames, dim) ==
    IF frames = <<>> THEN 0
    ELSE Max(Head(frames)[dim], MaxDim(Tail(frames), dim))

\* pad_frame_to_size: the frame centred in a target_w x target_h image; x, y
\* is where its w x h content is pasted.
pad_frame_to_size(frame, target_w, target_h) ==
    [width |-> target_w, height |-> target_h, src |-> frame.src,
     w |-> frame.width, h |-> frame.height,
     x |-> (target_w - frame.width) \div 2,
     y |-> (target_h - frame.height) \div 2]

\* repeated_frames.extend([frame] * frame_repeat); a count below 1 gives [].
RECURSIVE Repeat(_, _)
Repeat(frame, n) == IF n <= 0 THEN <<>> ELSE <<frame>> \o Repeat(frame, n - 1)

RECURSIVE Replicate(_, _)
Replicate(frames, n) ==
    IF frames = <<>> THEN <<>>
    ELSE Repeat(Head(frames), n) \o Replicate(Tail(frames), n)

\* GridRows with the division rounded down.
GridRowsFloor(cfg, total, cols) ==
    IF Truthy(cfg.output_rows) THEN cfg.output_rows[1]
    ELSE FloorDiv(total, cols)

\* cols = config["output_columns"] or int(total**0.5)
GridCols(cfg, total) ==
    IF Truthy(cfg.output_columns) THEN cfg.output_columns[1]
    ELSE IntSqrt(total)

\* rows = config["output_rows"] or ((total + cols - 1) // cols); the
\* division is evaluated only when output_rows is falsy.
GridRowsRaises(cfg, cols) == ~Truthy(cfg.output_rows) /\ cols = 0

GridRows(cfg, total, cols) ==
    IF Truthy(cfg.output_rows) THEN cfg.output_rows[1]
    ELSE FloorDiv(total + cols - 1, cols)

\* CanvasExtent with the padding left around the last cell.
CanvasExtentPadded(n, cell, padding) == n * (cell + padding)

\* new_w = cols * (max_w + padding) - padding, and the same for new_h.
CanvasExtent(n, cell, padding) == n * (cell + padding) - padding

\* The body of the paste loop for frame i (counted from 0).
PasteAt(i, frame, cols, max_w, max_h, padding) ==
    [frame |-> frame,
     x |-> PyMod(i, cols) * (max_w + padding),
     y |-> FloorDiv(i, cols) * (max_h + padding)]

\* An exception of the given kind leaves crop_and_process.
Raised(kind) ==
    [status |-> "error", error |-> kind, width |-> 0, height |-> 0,
     pastes |-> <<>>, order |-> <<>>, max_w |-> 0, max_h |-> 0,
     total |-> 0, cols |-> 0, rows |-> 0]

\* crop_and_process(img, regions, config): the canvas that is returned, with
\* the pastes made on it, or the exception that is raised.  order is the
\* list `regions` as the sort leaves it, each region with its frame.
crop_and_process(boxes, cfg) ==
    LET cropped == Crop(boxes)
        scaling == cfg.scale_factor.num # cfg.scale_factor.den
    IN
    IF scaling /\ ResizeRaises(cropped, cfg.scale_factor)
    THEN Raised("ValueError")
    ELSE IF cfg.sort_by_position /\ boxes = <<>>
    THEN Raised("ValueError")
    ELSE
    LET scaled == IF scaling THEN Resize(cropped, cfg.scale_factor) ELSE cropped
        pairs == IF cfg.sort_by_position THEN SortPairs(Zip(boxes, scaled))
                 ELSE Zip(boxes, scaled)
        frames == [i \in DOMAIN pairs |-> pairs[i].frame]
    IN
    IF MaxRaises(frames) THEN Raised("ValueError")
    ELSE
    LET max_w == MaxDim(frames, "width")
        max_h == MaxDim(frames, "height")
        padded == [i \in DOMAIN frames |->
                      pad_frame_to_size(frames[i], max_w, max_h)]
        repeated == Replicate(padded, cfg.frame_repeat)
        total == Len(repeated)
        cols == GridCols(cfg, total)
    IN
    IF GridRowsRaises(cfg, cols) THEN Raised("ZeroDivisionError")
    ELSE
    LET rows == GridRows(cfg, total, cols)
        new_w == CanvasExtent(cols, max_w, cfg.target_padding)
        new_h == CanvasExtent(rows, max_h, cfg.target_padding)
    IN
    IF new_w < 0 \/ new_h < 0 THEN Raised("ValueError")
    ELSE
    [status |-> "ok", error |-> "", width |-> new_w, height |-> new_h,
     pastes |-> [i \in DOMAIN repeated |->
                    PasteAt(i - 1, repeated[i], cols, max_w, max_h,
                            cfg.target_padding)],
     order |-> pairs, max_w |-> max_w, max_h |-> max_h,
     total |-> total, cols |-> cols, rows |-> rows]

(* ------------------ specification: the sheet composer ------------------ *)
\* The configurations that are enumerated.
Configs ==
    [ scale_factor : {[num |-> k, den |-> 2] : k \in -1 .. MaxScaleHalves},
      target_padding : -1 .. MaxPadding,
      output_columns : {None} \cup {<<n>> : n \in -1 .. MaxColumns},
      output_rows : {None} \cup {<<n>> : n \in -1 .. MaxRows},
      sort_by_position : BOOLEAN,
      frame_repeat : 0 .. MaxRepeat ]

\* crop_and_process is about to be called on the regions of some image.
InitCompose ==
    /\ finder = [pc |-> "idle"] /\ config = Unbound /\ new_img = Unbound
    /\ main = NoBatch
    /\ \E w \in 1 .. MaxSheetWidth : \E h \in 1 .. MaxSheetHeight :
          \E img \in [Coords(w, h) -> Alphas] :
              regions = get_connected_regions(img, w, h)

\* The call of crop_and_process, under any configuration.
CropAndProcess ==
    /\ new_img.status = "unbound"
    /\ \E cfg \in Configs :
          /\ config' = cfg
          /\ new_img' = crop_and_process(regions, cfg)
    /\ UNCHANGED <<finder, regions, main>>

NextCompose == CropAndProcess

SpecCompose == InitCompose /\ [][NextCompose]_vars

(* ------------------- process_spritesheet and main ---------------------- *)
\* main has merged its configuration and starts the walk over nfiles .png
\* files; current is the file being processed, called the files
\* process_spritesheet was called on, saved the files whose output image
\* was written.
InitBatch ==
    /\ finder = [pc |-> "idle"] /\ regions = <<>> /\ new_img = Unbound
    /\ config \in Configs
    /\ \E n \in 0 .. MaxFiles :
          main = [pc |-> "walk", nfiles |-> n, current |-> 0, called |-> {},
                  saved |-> {}]

\* new_img.save(output_path): whether writing a canvas of zero width or
\* height raises is left open; any other canvas is written.
SaveOutcomes(canvas) ==
    IF canvas.width = 0 \/ canvas.height = 0 THEN {"saved", "raised"}
    ELSE {"saved"}

\* One iteration of the walk: process_spritesheet on the next file, whose
\* image is any image.  The regions are found, crop_and_process is called
\* and, if it returns, the canvas is saved and the walk goes on; an
\* exception is caught nowhere and ends main.
ProcessSpritesheet ==
    /\ main.pc = "walk" /\ main.current < main.nfiles
    /\ \E w \in 1 .. MaxFileWidth : \E h \in 1 .. MaxFileHeight :
          \E img \in [Coords(w, h) -> Alphas] :
              LET found == RunFinder(InitFinder(img, w, h))
                  canvas == crop_and_process(found.regions, config)
                  file == main.current + 1
              IN  /\ finder' = found
                  /\ regions' = found.regions
                  /\ new_img' = canvas
                  /\ IF canvas.status = "ok"
                     THEN \E outcome \in SaveOutcomes(canvas) :
                             main' = IF outcome = "saved"
                                     THEN [main EXCEPT !.current = file,
                                                       !.called = @ \cup {file},
                                                       !.saved = @ \cup {file}]
                                     ELSE [main EXCEPT !.current = file,
                                                       !.called = @ \cup {file},
                                                       !.pc = "raised"]
                     ELSE main' = [main EXCEPT !.current = file,
                                               !.called = @ \cup {file},
                                               !.pc = "raised"]
    /\ UNCHANGED config

\* The walk has passed the last file: main returns.
EndOfWalk ==
    /\ main.pc = "walk" /\ main.current = main.nfiles
    /\ main' = [main EXCEPT !.pc = "done"]
    /\ UNCHANGED <<finder, regions, config, new_img>>

NextBatch == ProcessSpritesheet \/ EndOfWalk

SpecBatch == InitBatch /\ [][NextBatch]_vars

(* -------------------- properties of the sheet composer ------------------ *)
\* crop_and_process has returned a canvas / has returned or raised.
Returned == new_img.status = "ok"
Called == new_img.status # "unbound"

\* A LayoutConfig as the data model defines it: positive scale factor,
\* non-negative padding, positive repeat count, columns and rows either
\* unspecified or positive.
ValidConfig(cfg) ==
    /\ cfg.scale_factor.num > 0
    /\ cfg.target_padding >= 0
    /\ cfg.frame_repeat >= 1
    /\ cfg.output_columns = None \/ cfg.output_columns[1] >= 1
    /\ cfg.output_rows = None \/ cfg.output_rows[1] >= 1

\* (y_min, x_min) of box a is lexicographically smaller than that of box b.
BoxBefore(a, b) == a[2] < b[2] \/ (a[2] = b[2] /\ a[1] < b[1])
SameCorner(a, b) == a[1] = b[1] /\ a[2] = b[2]

\* C4 as stated: a canvas is returned only if columns * rows cells can hold
\* all the frames after replication.
C4_GridOverflowRejected ==
    (Returned /\ ValidConfig(config)) =>
        new_img.cols * new_img.rows >= new_img.total

\* C7: with sort_by_position the frames are placed in ascending order of
\* (y_min, x_min) of their original Region, frames with equal (y_min, x_min)
\* in discovery order, each frame paired with its own Region; without it the
\* discovery order is kept.  The pastes follow that order, each frame
\* frame_repeat times.
C7_SortedStable ==
    Returned =>
        LET order == new_img.order
            n == Len(regions)
        IN  /\ Len(order) = n
            /\ \A j \in 1 .. n :
                  Cardinality({i \in 1 .. n : order[i].frame.src = j}) = 1
            /\ \A i \in 1 .. n : order[i].region = regions[order[i].frame.src]
            /\ config.sort_by_position =>
                  \A i, j \in 1 .. n :
                      i < j =>
                          \/ BoxBefore(order[i].region, order[j].region)
                          \/ /\ SameCorner(order[i].region, order[j].region)
                             /\ order[i].frame.src < order[j].frame.src
            /\ ~config.sort_by_position =>
                  \A i \in 1 .. n : order[i].frame.src = i
            /\ \A k \in 1 .. new_img.total :
                  new_img.pastes[k].frame.src =
                      order[((k - 1) \div config.frame_repeat) + 1].frame.src

\* A sorted canvas whose regions were discovered out of position order:
\* the sort has moved a frame, and each is repeated.
C7_Witness ==
    /\ Returned
    /\ config.sort_by_position
    /\ config.frame_repeat = 2
    /\ \E i, j \in DOMAIN regions : i < j /\ BoxBefore(regions[j], regions[i])
    /\ new_img.order[1].frame.src = 2

\* round_down(n * scale_factor) for a positive scale factor.
FloorScaled(n, sf) ==
    CHOOSE v \in 0 .. n * sf.num :
        v * sf.den <= n * sf.num /\ n * sf.num < (v + 1) * sf.den

\* C8: for a non-empty region list and a valid configuration the returned
\* canvas is columns*(max_w+padding)-padding wide and
\* rows*(max_h+padding)-padding high, with total = regions * frame_repeat,
\* columns the configured value or floor(sqrt(total)) >= 1, rows the
\* configured value or ceil(total / columns), max_w and max_h the maxima of
\* the scaled frame sizes, and frame i pasted at
\* ((i mod columns)*(max_w+padding), (i div columns)*(max_h+padding)).
C8_GridSizing ==
    (Returned /\ regions # <<>> /\ ValidConfig(config)) =>
        LET total == Len(regions) * config.frame_repeat
            cols == new_img.cols
            rows == new_img.rows
            pad == config.target_padding
            ws == {FloorScaled(regions[i][3] - regions[i][1],
                               config.scale_factor) : i \in DOMAIN regions}
            hs == {FloorScaled(regions[i][4] - regions[i][2],
                               config.scale_factor) : i \in DOMAIN regions}
        IN  /\ new_img.total = total
            /\ IF config.output_columns # None
               THEN cols = config.output_columns[1]
               ELSE cols >= 1 /\ cols * cols <= total
                    /\ total < (cols + 1) * (cols + 1)
            /\ IF config.output_rows # None
               THEN rows = config.output_rows[1]
               ELSE (rows - 1) * cols < total /\ total <= rows * cols
            /\ new_img.max_w \in ws /\ \A v \in ws : v <= new_img.max_w
            /\ new_img.max_h \in hs /\ \A v \in hs : v <= new_img.max_h
            /\ new_img.width = cols * (new_img.max_w + pad) - pad
            /\ new_img.height = rows * (new_img.max_h + pad) - pad
            /\ Len(new_img.pastes) = total
            /\ \A i \in 0 .. total - 1 :
                  /\ new_img.pastes[i + 1].x = (i % cols) * (new_img.max_w + pad)
                  /\ new_img.pastes[i + 1].y = (i \div cols) * (new_img.max_h + pad)

\* A canvas for six frames of different scaled sizes with columns and rows
\* both computed and padding between the cells.
C8_Witness ==
    /\ Returned /\ ValidConfig(config)
    /\ config.output_columns = None /\ config.output_rows = None
    /\ config.target_padding = 1
    /\ config.scale_factor.num = 3
    /\ new_img.total = 6 /\ new_img.cols = 2 /\ new_img.rows = 3
    /\ \E i, j \in DOMAIN new_img.order :
          new_img.order[i].frame.width < new_img.order[j].frame.width

\* C9 as stated: crop_and_process raises for every configuration that is
\* not valid (an explicit 0 for columns or rows included).
C9_InvalidConfigRejected ==
    (Called /\ ~ValidConfig(config)) => new_img.status = "error"

\* C10: when rows is not configured, columns is positive or computed,
\* total >= 1 and padding >= 0, then columns * rows >= total, every frame is
\* a max_w x max_h cell pasted entirely inside the canvas, and the cells of
\* two frames never overlap.
C10_CellsFit ==
    (/\ Returned
     /\ config.output_rows = None
     /\ config.output_columns = None \/ config.output_columns[1] >= 1
     /\ config.target_padding >= 0
     /\ new_img.total >= 1) =>
        /\ new_img.cols * new_img.rows >= new_img.total
        /\ \A k \in DOMAIN new_img.pastes :
              LET c == new_img.pastes[k]
              IN  /\ c.frame.width = new_img.max_w
                  /\ c.frame.height = new_img.max_h
                  /\ 0 <= c.frame.x /\ c.frame.x + c.frame.w <= new_img.max_w
                  /\ 0 <= c.frame.y /\ c.frame.y + c.frame.h <= new_img.max_h
                  /\ 0 <= c.x /\ c.x + new_img.max_w <= new_img.width
                  /\ 0 <= c.y /\ c.y + new_img.max_h <= new_img.height
        /\ \A k, m \in DOMAIN new_img.pastes :
              k # m =>
                  LET c == new_img.pastes[k]
                      d == new_img.pastes[m]
                  IN  \/ c.x + new_img.max_w <= d.x
                      \/ d.x + new_img.max_w <= c.x
                      \/ c.y + new_img.max_h <= d.y
                      \/ d.y + new_img.max_h <= c.y

\* A canvas with two configured columns, computed rows, no padding and a
\* last row that is not full.
C10_Witness ==
    /\ Returned
    /\ config.output_rows = None
    /\ config.output_columns = <<2>>
    /\ config.target_padding = 0
    /\ new_img.total = 3 /\ new_img.rows = 2

(* ------------------------ properties of the batch ---------------------- *)
\* C5 as stated: a failure in one file aborts only that file's pipeline, so
\* when main stops, process_spritesheet has been called on every file of
\* the walk and every file whose own pipeline succeeds is saved.
C5_BatchContinues ==
    (main.pc \in {"done", "raised"} /\ ValidConfig(config)) =>
        main.called = 1 .. main.nfiles

\* C6: an image without foreground pixels gives an empty region list, on
\* which crop_and_process raises under every configuration, and no output
\* image is written for that file; a file is saved only if crop_and_process
\* returned a canvas for it.
C6_EmptyInputFails ==
    Called =>
        /\ Foreground = {} =>
              /\ regions = <<>>
              /\ new_img.status = "error"
              /\ main.current \notin main.saved
        /\ main.current \in main.saved => new_img.status = "ok"

\* The second file of a batch has no foreground pixel, is processed without
\* sorting and fails after the first file was saved.
C6_Witness ==
    /\ Called
    /\ Foreground = {}
    /\ ~config.sort_by_position
    /\ config.output_columns = <<1>> /\ config.output_rows = <<1>>
    /\ new_img.status = "error"
    /\ main.current = 2 /\ main.saved = {1}

=============================================================================
